---- MODULE Spec2Model ----
(***************************************************************************)
(* Model of the tick loop of main() in src/main.py: the playback clock     *)
(* (wall-clock stepping and audio-master mapping), the play/pause and seek *)
(* handlers, the paint overlay (draw, erase, clear), save and present.     *)
(*                                                                         *)
(* Time is counted in integer milliseconds.  time.time() is read as `now`, *)
(* which advances only in clock.tick_busy_loop (line 276); the reads of    *)
(* one tick return the same value.  Float arithmetic of the source is done *)
(* exactly on integers: elapsed * fps is (ms * fps) / 1000.                *)
(*                                                                         *)
(* A surface is modelled by what it shows: a frame surface by <<kind,      *)
(* index>>, the overlay by a function from the pixels of a small canvas to *)
(* Transparent (0,0,0,0) or Painted (brush_color).                         *)
(***************************************************************************)
EXTENDS Integers, Sequences, FiniteSets, TLC

\* ---------------------------------------------------------------- bounds
\* Canvas width and height in pixels (w, h of the source; 800x600 or the
\* size of the first frame there).
CanvasW == 3
CanvasH == 3
\* Longest sequence of frames of the small sessions, and of the long one.
FewFrames == 3
ManyFrames == 46
\* Number of tick durations a session's wall time may add up to.
MaxTicks == 4
\* The user stops pressing '+' at this brush radius.
RadiusCap == 7
\* The calls of music.play() a session may make.
MaxStarts == 2

\* ------------------------------------------------------ program constants
DEFAULT_FPS == 30
MinFps == 1
InitRadius == 6
MinRadius == 1
MaxRadius == 200
\* volume is counted in tenths: 1.0 is 10, the step 0.1 is 1.
VolumeFull == 10
VolumeStep == 1
\* audio_start_time = None
None == -1
\* pygame.mixer.music.get_pos() when the feed has no position to report
NoPos == -1

Transparent == 0
Painted == 1

Pixels == (0 .. CanvasW - 1) \X (0 .. CanvasH - 1)

VARIABLES
    \* the session: what the user and the machine do (input source, time source)
    session,
    \* program state of main()
    frame_files, fps, audio_enabled, audio_started, audio_start_time,
    audio_pause_acc, start_time, last_time, playing, frame_index, cur_frame,
    overlay, brush_radius, volume, muted, drawing, erasing, running,
    mx, my, pos_ms, pc,
    \* collaborators: time source, audio transport, output directory, display
    now, music, music_pos, music_volume, saved, screen,
    \* the value save_combined returned last
    save_ok,
    \* the audio transport's log: the calls of music.play() made so far, and
    \* which step of bringing the feed up has failed ("none", "load", "start")
    plays, audio_error,
    \* history: the last step taken, the step before it, the index before the
    \* last step, the time spent Playing since the audio feed started, and the
    \* index at the last pause (kept until a seek or the end of the tick in
    \* which playback resumes)
    last_op, prev_op, prev_index, played_time, pause_mark,
    \* history: the brush radius before the last step, whether the batch of
    \* this tick held a clear command, and whether the last step decoded a
    \* frame file (load_frame_surface)
    prev_radius, cleared, loaded

vars == <<session, frame_files, fps, audio_enabled, audio_started,
          audio_start_time, audio_pause_acc, start_time, last_time, playing,
          frame_index, cur_frame, overlay, brush_radius, volume, muted,
          drawing, erasing, running, mx, my, pos_ms, pc, now, music,
          music_pos, music_volume, saved, screen, save_ok, plays,
          audio_error, last_op, prev_op,
          prev_index, played_time, pause_mark, prev_radius, cleared, loaded>>

\* ---------------------------------------------------------------- helpers
Max(a, b) == IF a >= b THEN a ELSE b
Min(a, b) == IF a <= b THEN a ELSE b

\* Python's int(x) of the quotient num/den (den > 0): truncation toward zero.
PyInt(num, den) == IF num >= 0 THEN num \div den ELSE -((-num) \div den)

\* Python's a % b for b > 0: the result has the sign of b.
PyMod(a, b) == a - b * (a \div b)

\* find_frame_files: a sorted list of n paths; path number k is frame k.
FrameFiles(n) == [k \in 1 .. n |-> k - 1]

\* frame_files[idx]: Python counts a negative index from the end of the list
\* and raises IndexError outside of it.
PathAt(files, idx) ==
    IF 0 <= idx /\ idx < Len(files) THEN files[idx + 1]
    ELSE IF -Len(files) <= idx /\ idx < 0 THEN files[Len(files) + idx + 1]
    ELSE None

\* current_frame_surface(idx); decoded is the outcome of load_frame_surface.
CurrentFrameSurface(files, idx, decoded) ==
    IF Len(files) > 0
    THEN IF PathAt(files, idx) = None THEN <<"IndexError", idx>>
         ELSE IF decoded THEN <<"image", PathAt(files, idx)>>
         ELSE <<"black", 0>>
    ELSE <<"blank", 0>>

\* current_frame_surface calls load_frame_surface when there are frame files.
Decodes(files) == Len(files) > 0

\* An empty SRCALPHA surface of the canvas size.
BlankOverlay == [p \in Pixels |-> Transparent]

\* The pixels pygame.draw.circle fills: the disc of diameter 2r whose bounding
\* square is [x - r, x + r) x [y - r, y + r).  A pixel is in it when its
\* centre is within r of the point (x, y); distances are doubled to stay in
\* the integers.
InDisc(p, x, y, r) ==
    (2 * p[1] + 1 - 2 * x) * (2 * p[1] + 1 - 2 * x)
      + (2 * p[2] + 1 - 2 * y) * (2 * p[2] + 1 - 2 * y) <= 4 * r * r

\* The rectangle a blit of a (2r x 2r) surface at (x - r, y - r) covers.
InStamp(p, x, y, r) ==
    /\ x - r <= p[1] /\ p[1] < x + r
    /\ y - r <= p[2] /\ p[2] < y + r

\* pygame.draw.circle(overlay, brush_color, (mx, my), brush_radius)
StrokeDraw(ov, x, y, r) ==
    [p \in Pixels |-> IF InDisc(p, x, y, r) THEN Painted ELSE ov[p]]

\* erase_surf is a (2r x 2r) surface whose every pixel is (0, 0, 0, 0): the
\* fill makes it so and the circle drawn on it has the same colour.  It is
\* rebuilt whenever its width is not 2r, so the stamp used always has the
\* current radius.  BLEND_RGBA_MIN takes the channel-wise minimum.
EraseSurf(r) == [dx \in 0 .. 2 * r - 1, dy \in 0 .. 2 * r - 1 |-> Transparent]

StrokeErase(ov, x, y, r) ==
    [p \in Pixels |->
        IF InStamp(p, x, y, r)
        THEN Min(ov[p], EraseSurf(r)[p[1] - (x - r), p[2] - (y - r)])
        ELSE ov[p]]

\* Variant of SeekForward: wraps by comparing with the count, no max(1, n).
SeekForward_WrapAtCount(i, n) == IF i + 1 = n THEN 0 ELSE i + 1

\* Variant of SeekBackward: stops at 0 instead of wrapping.
SeekBackward_Clamped(i, n) == Max(0, i - 1)

\* Seek arithmetic of the key handlers.
SeekForward(i, n) == PyMod(i + 1, Max(1, n))
SeekBackward(i, n) == PyMod(i - 1, Max(1, n))

\* Wall-clock stepping: one step, back to 0 past the last frame.
StepIndex(i, n) == IF i + 1 >= n THEN 0 ELSE i + 1

\* now - last_time >= 1.0 / fps, in milliseconds
IntervalElapsed(t, last, rate) == (t - last) * rate >= 1000

\* Variant of Desired: truncates elapsed to whole seconds first.
Desired_WholeSeconds(elapsed_ms, rate) == PyInt(elapsed_ms, 1000) * rate

\* desired = int(elapsed * fps), elapsed in milliseconds
Desired(elapsed_ms, rate) == PyInt(elapsed_ms * rate, 1000)

\* elapsed of the audio-master branch, in milliseconds
AudioElapsed(pos, t, astart, acc, start) ==
    IF pos >= 0 THEN pos
    ELSE IF astart # None THEN t - astart - acc ELSE t - start

\* --------------------------------------------------------------- sessions
\* A session fixes what the input source and the machine may deliver: the
\* keys and buttons the user uses, whether an audio file is there, the
\* numbers of frames and the --fps values tried, the durations of a tick in
\* milliseconds, the places of the mouse, whether a frame may fail to
\* decode, and the radius at which the user stops growing the brush (above
\* MaxRadius: never).
PlaybackKeys == {"SPACE", "RIGHT", "LEFT"}

Sessions ==
    { [keys |-> PlaybackKeys, audio |-> {FALSE}, frames |-> {0, 1, FewFrames},
       rates |-> {0}, dts |-> {500}, mouse |-> {<<0, 0>>}, decode |-> BOOLEAN,
       cap |-> RadiusCap],
      [keys |-> PlaybackKeys, audio |-> {FALSE}, frames |-> {FewFrames},
       rates |-> {10}, dts |-> {100, 300}, mouse |-> {<<0, 0>>}, decode |-> {TRUE},
       cap |-> RadiusCap],
      [keys |-> PlaybackKeys, audio |-> {TRUE}, frames |-> {0, 1, FewFrames},
       rates |-> {0}, dts |-> {500}, mouse |-> {<<0, 0>>}, decode |-> {TRUE},
       cap |-> RadiusCap],
      [keys |-> {"SPACE"}, audio |-> {TRUE}, frames |-> {ManyFrames},
       rates |-> {DEFAULT_FPS}, dts |-> {0, 500}, mouse |-> {<<0, 0>>},
       decode |-> {TRUE},
       cap |-> RadiusCap],
      [keys |-> {"MDOWN", "MUP", "C", "MINUS"}, audio |-> {FALSE},
       frames |-> {0}, rates |-> {DEFAULT_FPS}, dts |-> {0},
       mouse |-> {<<0, 0>>, <<1, 1>>, <<CanvasW - 1, CanvasH - 1>>}, decode |-> {TRUE},
       cap |-> RadiusCap],
      [keys |-> {"MDOWN", "SPACE", "RIGHT"}, audio |-> BOOLEAN,
       frames |-> {2}, rates |-> {0}, dts |-> {500}, mouse |-> {<<1, 1>>},
       decode |-> {TRUE},
       cap |-> RadiusCap],
      [keys |-> {"MDOWN", "S", "C", "PLUS", "RIGHT"}, audio |-> {FALSE},
       frames |-> {2}, rates |-> {0}, dts |-> {0}, mouse |-> {<<1, 1>>},
       decode |-> {TRUE},
       cap |-> RadiusCap],
      [keys |-> {"COMMA", "PERIOD", "M", "SPACE"},
       audio |-> {TRUE}, frames |-> {1}, rates |-> {DEFAULT_FPS}, dts |-> {0},
       mouse |-> {<<0, 0>>}, decode |-> {TRUE},
       cap |-> RadiusCap],
      [keys |-> {"QUIT", "ESC", "SPACE", "S"}, audio |-> BOOLEAN,
       frames |-> {2}, rates |-> {0}, dts |-> {500}, mouse |-> {<<0, 0>>},
       decode |-> {TRUE},
       cap |-> RadiusCap],
      [keys |-> {"PLUS", "MINUS"}, audio |-> {FALSE}, frames |-> {0},
       rates |-> {DEFAULT_FPS}, dts |-> {0}, mouse |-> {<<0, 0>>},
       decode |-> {TRUE}, cap |-> MaxRadius + 1] }

MaxOf(S) == CHOOSE x \in S : \A y \in S : y <= x

\* The wall time at which the session's clock stops advancing.
Horizon == MaxTicks * MaxOf(session.dts)

\* No file written yet, nothing presented yet.
NoFile == [none |-> TRUE]

\* save_ok before any call of save_combined
NoCall == <<>>

\* pause_mark: <<index at the last pause, paused in this very tick>>
NoMark == <<None, FALSE>>

\* ------------------------------------------------------------------- Init
\* The state of main() at line 191, with the frame list found, fps clamped,
\* the overlay created (202) and frame 0 preloaded (247).
Init ==
    /\ session \in Sessions
    /\ \E n \in session.frames : frame_files = FrameFiles(n)
    /\ \E a \in session.rates : fps = Max(MinFps, a)
    /\ audio_enabled \in session.audio
    /\ audio_started = FALSE
    /\ audio_start_time = None
    /\ audio_pause_acc = 0
    /\ now = 0
    /\ start_time = now
    /\ last_time = now
    /\ playing = FALSE
    /\ frame_index = 0
    /\ \E d \in session.decode :
          cur_frame = CurrentFrameSurface(frame_files, frame_index, d)
    /\ overlay = BlankOverlay
    /\ brush_radius = InitRadius
    /\ volume = VolumeFull
    /\ muted = FALSE
    /\ drawing = FALSE
    /\ erasing = FALSE
    /\ running = TRUE
    /\ mx = 0
    /\ my = 0
    /\ pos_ms = NoPos
    /\ pc = "load"
    /\ music = "stopped"
    /\ music_pos = 0
    /\ music_volume = VolumeFull
    /\ saved = NoFile
    /\ screen = NoFile
    /\ save_ok = NoCall
    /\ plays = 0
    /\ audio_error = "none"
    /\ last_op = "init"
    /\ prev_op = "init"
    /\ prev_index = 0
    /\ played_time = 0
    /\ pause_mark = NoMark
    /\ prev_radius = InitRadius
    /\ cleared = FALSE
    /\ loaded = Decodes(frame_files)

\* Variables grouped by who changes them.
configVars == <<session, frame_files, fps, audio_pause_acc, start_time>>
audioVars == <<audio_enabled, audio_started, audio_start_time, music, music_pos,
               plays, audio_error>>
paintVars == <<overlay, brush_radius, drawing, erasing, mx, my>>
volumeVars == <<volume, muted, music_volume>>
outVars == <<saved, screen, save_ok>>

\* Every step records itself, the index and the radius it started from,
\* whether a clear command is in this tick's batch and whether it decoded.
Log(op, clr, ld) ==
    /\ last_op' = op
    /\ prev_op' = last_op
    /\ prev_index' = frame_index
    /\ prev_radius' = brush_radius
    /\ cleared' = clr
    /\ loaded' = ld

Did(op) == Log(op, cleared, FALSE)

\* ------------------------------------------------ startup (lines 192-269)
\* pygame.mixer.init() and music.load(): a failure disables audio.
AudioLoad ==
    /\ pc = "load"
    /\ \/ audio_enabled' = audio_enabled /\ audio_error' = audio_error
       \/ audio_enabled /\ audio_enabled' = FALSE /\ audio_error' = "load"
    /\ pc' = "autostart"
    /\ Did("load")
    /\ UNCHANGED <<configVars, audio_started, audio_start_time, music,
                   music_pos, plays, paintVars, volumeVars, outVars, last_time,
                   playing, frame_index, cur_frame, running, pos_ms, now,
                   played_time, pause_mark>>

\* music.play(loops=-1) on the transport: the position restarts at 0.
MusicPlay ==
    /\ music' = "playing"
    /\ music_pos' = 0
    /\ plays' = plays + 1

\* music.play(loops=-1) raises: the call was made, the transport is as before.
MusicPlayRaises ==
    /\ plays' = plays + 1
    /\ audio_error' = "start"
    /\ UNCHANGED <<music, music_pos>>

\* Auto-start of audio and playback; music.play() may raise.
AutoStart ==
    /\ pc = "autostart"
    /\ \/ /\ audio_enabled
          /\ MusicPlay
          /\ audio_started' = TRUE
          /\ audio_start_time' = now
          /\ playing' = TRUE
          /\ last_time' = now
          /\ audio_error' = audio_error
       \/ /\ audio_enabled
          /\ MusicPlayRaises
          /\ UNCHANGED <<audio_started, audio_start_time, playing, last_time>>
       \/ /\ ~audio_enabled
          /\ UNCHANGED <<music, music_pos, plays, audio_error, audio_started,
                         audio_start_time, playing, last_time>>
    /\ pc' = "tick"
    /\ Did("autostart")
    /\ UNCHANGED <<configVars, audio_enabled, paintVars, volumeVars, outVars,
                   frame_index, cur_frame, running, pos_ms, now, played_time,
                   pause_mark>>

\* ------------------------------------------------- the tick loop (275-422)
\* while running: dt = clock.tick_busy_loop(fps).  Wall time passes; a
\* running transport plays on by the same amount.
TickStart ==
    /\ pc = "tick"
    /\ running
    /\ \E dt \in session.dts :
          /\ now + dt <= Horizon
          /\ now' = now + dt
          /\ music_pos' = IF music = "playing" THEN music_pos + dt ELSE music_pos
          /\ played_time' = IF audio_started /\ playing
                            THEN played_time + dt ELSE played_time
    /\ pc' = "events"
    /\ Did("tick")
    /\ UNCHANGED <<configVars, audio_enabled, audio_started, audio_start_time,
                   music, plays, audio_error, paintVars, volumeVars, outVars,
                   last_time, playing, frame_index, cur_frame, running,
                   pos_ms, pause_mark>>

\* One event of the batch is handled; what a handler leaves alone besides
\* the variables it names.
KeyEvent(op, clr, ld) ==
    /\ pc = "events"
    /\ op \in session.keys
    /\ pc' = pc
    /\ Log(op, clr, ld)
    /\ UNCHANGED <<configVars, now, pos_ms, played_time>>

KeyFrame(op) == KeyEvent(op, cleared, FALSE)

\* pygame.QUIT
Quit ==
    /\ KeyFrame("QUIT")
    /\ running' = FALSE
    /\ UNCHANGED <<audioVars, paintVars, volumeVars, outVars, last_time,
                   playing, frame_index, cur_frame, pause_mark>>

\* K_ESCAPE
KeyEscape ==
    /\ KeyFrame("ESC")
    /\ running' = FALSE
    /\ UNCHANGED <<audioVars, paintVars, volumeVars, outVars, last_time,
                   playing, frame_index, cur_frame, pause_mark>>

\* Variant of MusicUnpause: the transport is left as it is.
MusicUnpause_Ignored ==
    UNCHANGED <<music, music_pos, plays>>

\* music.unpause(): a paused transport plays on from where it stopped.
MusicUnpause ==
    /\ music' = IF music = "paused" THEN "playing" ELSE music
    /\ UNCHANGED <<music_pos, plays>>

\* music.pause()
MusicPause ==
    music' = IF music = "playing" THEN "paused" ELSE music

\* K_SPACE: toggle play/pause and drive the transport.
KeySpace ==
    /\ KeyFrame("SPACE")
    /\ playing' = ~playing
    /\ IF playing'
       THEN /\ IF audio_enabled
               THEN IF ~audio_started
                    THEN /\ plays < MaxStarts
                         /\ \/ /\ MusicPlay
                               /\ audio_started' = TRUE
                               /\ audio_start_time' = now
                               /\ audio_error' = audio_error
                            \/ /\ MusicPlayRaises
                               /\ UNCHANGED <<audio_started, audio_start_time>>
                    ELSE /\ MusicUnpause
                         /\ UNCHANGED <<audio_started, audio_start_time,
                                        audio_error>>
               ELSE UNCHANGED <<music, music_pos, audio_started,
                                audio_start_time, plays, audio_error>>
            /\ last_time' = now
            /\ pause_mark' = IF pause_mark[2] THEN NoMark ELSE pause_mark
       ELSE /\ IF audio_enabled /\ audio_started
               THEN MusicPause
               ELSE music' = music
            /\ UNCHANGED <<music_pos, audio_started, audio_start_time,
                           last_time, plays, audio_error>>
            /\ pause_mark' = <<frame_index, TRUE>>
    /\ UNCHANGED <<audio_enabled, paintVars, volumeVars, outVars, frame_index,
                   cur_frame, running>>

\* Variant of KeyRight: seeks without looking at playing.
KeyRight_WhilePlaying ==
    /\ KeyEvent("RIGHT", cleared, Decodes(frame_files))
    /\ frame_index' = SeekForward(frame_index, Len(frame_files))
    /\ \E d \in session.decode :
          cur_frame' = CurrentFrameSurface(frame_files, frame_index', d)
    /\ pause_mark' = NoMark
    /\ UNCHANGED <<audioVars, paintVars, volumeVars, outVars, last_time,
                   playing, running>>

\* K_RIGHT or ']': next frame when paused.
KeyRight ==
    /\ KeyEvent("RIGHT", cleared, ~playing /\ Decodes(frame_files))
    /\ IF ~playing
       THEN /\ frame_index' = SeekForward(frame_index, Len(frame_files))
            /\ \E d \in session.decode :
                  cur_frame' = CurrentFrameSurface(frame_files, frame_index', d)
            /\ pause_mark' = NoMark
       ELSE UNCHANGED <<frame_index, cur_frame, pause_mark>>
    /\ UNCHANGED <<audioVars, paintVars, volumeVars, outVars, last_time,
                   playing, running>>

\* Variant of KeyLeft: the index moves, the frame is not loaded.
KeyLeft_NoReload ==
    /\ KeyEvent("LEFT", cleared, FALSE)
    /\ IF ~playing
       THEN /\ frame_index' = SeekBackward(frame_index, Len(frame_files))
            /\ cur_frame' = cur_frame
            /\ pause_mark' = NoMark
       ELSE UNCHANGED <<frame_index, cur_frame, pause_mark>>
    /\ UNCHANGED <<audioVars, paintVars, volumeVars, outVars, last_time,
                   playing, running>>

\* K_LEFT or '[': previous frame when paused.
KeyLeft ==
    /\ KeyEvent("LEFT", cleared, ~playing /\ Decodes(frame_files))
    /\ IF ~playing
       THEN /\ frame_index' = SeekBackward(frame_index, Len(frame_files))
            /\ \E d \in session.decode :
                  cur_frame' = CurrentFrameSurface(frame_files, frame_index', d)
            /\ pause_mark' = NoMark
       ELSE UNCHANGED <<frame_index, cur_frame, pause_mark>>
    /\ UNCHANGED <<audioVars, paintVars, volumeVars, outVars, last_time,
                   playing, running>>

\* Variant of KeyClear: the fill is left out.
KeyClear_NoFill ==
    /\ KeyEvent("C", TRUE, FALSE)
    /\ overlay' = overlay
    /\ UNCHANGED <<audioVars, brush_radius, drawing, erasing, mx, my,
                   volumeVars, outVars, last_time, playing, frame_index,
                   cur_frame, running, pause_mark>>

\* K_c: overlay.fill((0, 0, 0, 0))
KeyClear ==
    /\ KeyEvent("C", TRUE, FALSE)
    /\ overlay' = BlankOverlay
    /\ UNCHANGED <<audioVars, brush_radius, drawing, erasing, mx, my,
                   volumeVars, outVars, last_time, playing, frame_index,
                   cur_frame, running, pause_mark>>

\* name = f"frame_{frame_index:05d}_combined.png"
SaveName(i) == <<"frame_", i, "_combined.png">>

\* Variant of SaveCombined: returns True whatever the write did.
SaveCombined_AlwaysTrue(frame_surf, overlay_surf, path, written) ==
    [file |-> IF written
              THEN [name |-> path, frame |-> frame_surf, overlay |-> overlay_surf]
              ELSE saved,
     ok |-> TRUE]

\* save_combined(frame_surf, overlay_surf, path): a new surface with the
\* frame and the overlay on top of it, no HUD, is written to path; written
\* is the outcome of pygame.image.save.  file is what is at path afterwards,
\* ok the value returned.
SaveCombined(frame_surf, overlay_surf, path, written) ==
    [file |-> IF written
              THEN [name |-> path, frame |-> frame_surf, overlay |-> overlay_surf]
              ELSE saved,
     ok |-> written]

\* Variant of KeySave: the overlay is cleared once saved.
KeySave_ClearsOverlay ==
    /\ KeyFrame("S")
    /\ \E written \in BOOLEAN :
          LET r == SaveCombined(cur_frame, overlay, SaveName(frame_index), written)
          IN  saved' = r.file /\ save_ok' = <<r.ok>>
    /\ overlay' = BlankOverlay
    /\ UNCHANGED <<audioVars, brush_radius, drawing, erasing, mx, my,
                   volumeVars, screen, last_time, playing, frame_index,
                   cur_frame, running, pause_mark>>

\* K_s
KeySave ==
    /\ KeyFrame("S")
    /\ \E written \in BOOLEAN :
          LET r == SaveCombined(cur_frame, overlay, SaveName(frame_index), written)
          IN  saved' = r.file /\ save_ok' = <<r.ok>>
    /\ UNCHANGED <<audioVars, paintVars, volumeVars, screen, last_time,
                   playing, frame_index, cur_frame, running, pause_mark>>

\* Variant of KeyPlus: no min(200, ...).
KeyPlus_NoCeiling ==
    /\ KeyFrame("PLUS")
    /\ brush_radius < session.cap
    /\ brush_radius' = brush_radius + 1
    /\ UNCHANGED <<audioVars, overlay, drawing, erasing, mx, my, volumeVars,
                   outVars, last_time, playing, frame_index, cur_frame,
                   running, pause_mark>>

\* K_PLUS or K_EQUALS
KeyPlus ==
    /\ KeyFrame("PLUS")
    /\ brush_radius < session.cap
    /\ brush_radius' = Min(MaxRadius, brush_radius + 1)
    /\ UNCHANGED <<audioVars, overlay, drawing, erasing, mx, my, volumeVars,
                   outVars, last_time, playing, frame_index, cur_frame,
                   running, pause_mark>>

\* K_MINUS or K_UNDERSCORE
KeyMinus ==
    /\ KeyFrame("MINUS")
    /\ brush_radius' = Max(MinRadius, brush_radius - 1)
    /\ UNCHANGED <<audioVars, overlay, drawing, erasing, mx, my, volumeVars,
                   outVars, last_time, playing, frame_index, cur_frame,
                   running, pause_mark>>

\* music.set_volume(0.0 if muted else volume), when the feed was started
SetVolume(m, v) ==
    music_volume' = IF audio_enabled /\ audio_started
                    THEN (IF m THEN 0 ELSE v) ELSE music_volume

\* K_COMMA: volume down
KeyComma ==
    /\ KeyFrame("COMMA")
    /\ volume' = Max(0, volume - VolumeStep)
    /\ muted' = muted
    /\ SetVolume(muted', volume')
    /\ UNCHANGED <<audioVars, paintVars, outVars, last_time, playing,
                   frame_index, cur_frame, running, pause_mark>>

\* K_PERIOD: volume up
KeyPeriod ==
    /\ KeyFrame("PERIOD")
    /\ volume' = Min(VolumeFull, volume + VolumeStep)
    /\ muted' = muted
    /\ SetVolume(muted', volume')
    /\ UNCHANGED <<audioVars, paintVars, outVars, last_time, playing,
                   frame_index, cur_frame, running, pause_mark>>

\* K_m: mute toggle
KeyMute ==
    /\ KeyFrame("M")
    /\ muted' = ~muted
    /\ volume' = volume
    /\ SetVolume(muted', volume')
    /\ UNCHANGED <<audioVars, paintVars, outVars, last_time, playing,
                   frame_index, cur_frame, running, pause_mark>>

\* MOUSEBUTTONDOWN: button 1 starts drawing, button 3 erasing.
MouseButtonDown ==
    /\ KeyFrame("MDOWN")
    /\ \E button \in 1 .. 3 :
          /\ drawing' = IF button = 1 THEN TRUE ELSE drawing
          /\ erasing' = IF button = 3 THEN TRUE ELSE erasing
    /\ UNCHANGED <<audioVars, overlay, brush_radius, mx, my, volumeVars,
                   outVars, last_time, playing, frame_index, cur_frame,
                   running, pause_mark>>

\* MOUSEBUTTONUP
MouseButtonUp ==
    /\ KeyFrame("MUP")
    /\ \E button \in 1 .. 3 :
          /\ drawing' = IF button = 1 THEN FALSE ELSE drawing
          /\ erasing' = IF button = 3 THEN FALSE ELSE erasing
    /\ UNCHANGED <<audioVars, overlay, brush_radius, mx, my, volumeVars,
                   outVars, last_time, playing, frame_index, cur_frame,
                   running, pause_mark>>

\* Variant of EventsDone: the strokes follow the events at once.
EventsDone_SkipsClock ==
    /\ pc = "events"
    /\ pc' = "paint"
    /\ Did("events")
    /\ UNCHANGED <<configVars, audioVars, paintVars, volumeVars, outVars,
                   last_time, playing, frame_index, cur_frame, running,
                   pos_ms, now, played_time, pause_mark>>

\* The for loop over pygame.event.get() is done.
EventsDone ==
    /\ pc = "events"
    /\ pc' = "clock"
    /\ Did("events")
    /\ UNCHANGED <<configVars, audioVars, paintVars, volumeVars, outVars,
                   last_time, playing, frame_index, cur_frame, running,
                   pos_ms, now, played_time, pause_mark>>

\* ------------------------------------- desired frame index (lines 364-390)
\* Variant of AudioTarget: the frame number is not taken modulo n.
AudioTarget_NoWrap(i, elapsed_ms, rate, n) ==
    IF n > 0 /\ Desired(elapsed_ms, rate) # i
    THEN Desired(elapsed_ms, rate)
    ELSE i

\* The index the audio-master branch leaves: an absolute mapping of elapsed.
AudioTarget(i, elapsed_ms, rate, n) ==
    IF n > 0 /\ Desired(elapsed_ms, rate) # i
    THEN PyMod(Desired(elapsed_ms, rate), n)
    ELSE i

\* The audio feed was started and the state is Playing: the feed's position
\* is the master clock; without a valid position, wall time since the start.
AudioMasterEval ==
    /\ pc = "clock"
    /\ audio_enabled /\ audio_started /\ playing
    /\ \E valid \in BOOLEAN : pos_ms' = IF valid THEN music_pos ELSE NoPos
    /\ LET elapsed == AudioElapsed(pos_ms', now, audio_start_time,
                                   audio_pause_acc, start_time)
           n == Len(frame_files)
       IN  /\ frame_index' = AudioTarget(frame_index, elapsed, fps, n)
           /\ IF n > 0 /\ Desired(elapsed, fps) # frame_index
              THEN \E d \in session.decode :
                      cur_frame' = CurrentFrameSurface(frame_files, frame_index', d)
              ELSE cur_frame' = cur_frame
           /\ Log("audio", cleared, n > 0 /\ Desired(elapsed, fps) # frame_index)
    /\ pc' = "paint"
    /\ UNCHANGED <<configVars, audioVars, paintVars, volumeVars, outVars,
                   last_time, playing, running, now, played_time, pause_mark>>

\* Variant of WallTarget: steps once per interval elapsed, catching up.
WallTarget_CatchUp(i, t, last, rate, n, play) ==
    IF play /\ n > 0 /\ IntervalElapsed(t, last, rate)
    THEN PyMod(i + PyInt((t - last) * rate, 1000), n)
    ELSE i

\* The index the wall-clock branch leaves.
WallTarget(i, t, last, rate, n, play) ==
    IF play /\ n > 0 /\ IntervalElapsed(t, last, rate)
    THEN StepIndex(i, n)
    ELSE i

\* No audio master: wall-clock stepping.
WallClockStep ==
    /\ pc = "clock"
    /\ ~(audio_enabled /\ audio_started /\ playing)
    /\ LET n == Len(frame_files)
       IN  /\ frame_index' = WallTarget(frame_index, now, last_time, fps, n, playing)
           /\ IF playing /\ n > 0 /\ IntervalElapsed(now, last_time, fps)
              THEN /\ \E d \in session.decode :
                         cur_frame' = CurrentFrameSurface(frame_files, frame_index', d)
                   /\ last_time' = now
              ELSE UNCHANGED <<cur_frame, last_time>>
           /\ Log("wall", cleared,
                  playing /\ n > 0 /\ IntervalElapsed(now, last_time, fps))
    /\ pc' = "paint"
    /\ UNCHANGED <<configVars, audioVars, paintVars, volumeVars, outVars,
                   playing, running, pos_ms, now, played_time, pause_mark>>

\* ------------------------------------------------ strokes (lines 392-402)
\* The overlay after this tick's strokes; draws and erases say whether the
\* draw stroke and the erase stroke are applied.
Strokes(ov, x, y, r, draws, erases) ==
    LET drawn == IF draws THEN StrokeDraw(ov, x, y, r) ELSE ov
    IN  IF erases THEN StrokeErase(drawn, x, y, r) ELSE drawn

StrokeName(draws, erases) ==
    IF draws /\ erases THEN "draw+erase"
    ELSE IF draws THEN "draw"
    ELSE IF erases THEN "erase"
    ELSE "paint"

\* mouse.get_pos() and mouse.get_pressed() are read from the input source.
Paint ==
    /\ pc = "paint"
    /\ \E pos \in session.mouse, pressed1 \in BOOLEAN, pressed3 \in BOOLEAN :
          /\ mx' = pos[1]
          /\ my' = pos[2]
          /\ overlay' = Strokes(overlay, mx', my', brush_radius,
                                drawing /\ pressed1, erasing /\ pressed3)
          /\ Log(StrokeName(drawing /\ pressed1, erasing /\ pressed3),
                 cleared, FALSE)
    /\ pc' = "render"
    /\ UNCHANGED <<configVars, audioVars, brush_radius, drawing, erasing,
                   volumeVars, outVars, last_time, playing, frame_index,
                   cur_frame, running, pos_ms, now, played_time, pause_mark>>

\* ------------------------------------------------- render (lines 404-422)
\* Variant of Render: the loop goes back to its head whatever running is.
Render_LoopsOn ==
    /\ pc = "render"
    /\ screen' = [frame |-> cur_frame, overlay |-> overlay,
                  hud |-> frame_index + 1]
    /\ pc' = "tick"
    /\ pause_mark' = IF playing THEN NoMark ELSE <<pause_mark[1], FALSE>>
    /\ Log("render", FALSE, FALSE)
    /\ UNCHANGED <<configVars, audioVars, paintVars, volumeVars, saved,
                   save_ok, last_time, playing, frame_index, cur_frame,
                   running, pos_ms, now, played_time>>

\* screen.blit(cur_frame), screen.blit(overlay), the HUD, display.flip();
\* then the while test.
Render ==
    /\ pc = "render"
    /\ screen' = [frame |-> cur_frame, overlay |-> overlay,
                  hud |-> frame_index + 1]
    /\ pc' = IF running THEN "tick" ELSE "done"
    /\ pause_mark' = IF playing THEN NoMark ELSE <<pause_mark[1], FALSE>>
    /\ Log("render", FALSE, FALSE)
    /\ UNCHANGED <<configVars, audioVars, paintVars, volumeVars, saved,
                   save_ok, last_time, playing, frame_index, cur_frame,
                   running, pos_ms, now, played_time>>

Next ==
    \/ AudioLoad
    \/ AutoStart
    \/ TickStart
    \/ Quit
    \/ KeyEscape
    \/ KeySpace
    \/ KeyRight
    \/ KeyLeft
    \/ KeyClear
    \/ KeySave
    \/ KeyPlus
    \/ KeyMinus
    \/ KeyComma
    \/ KeyPeriod
    \/ KeyMute
    \/ MouseButtonDown
    \/ MouseButtonUp
    \/ EventsDone
    \/ AudioMasterEval
    \/ WallClockStep
    \/ Paint
    \/ Render

Spec == Init /\ [][Next]_vars

\* ================================================================ claims
\* The surfaces current_frame_surface(i) may return.
Materializations(i) ==
    {CurrentFrameSurface(frame_files, i, d) : d \in BOOLEAN}

\* C1: in every reachable state frame_index is in [0, frame_count) when
\* there are frames, and is 0 when there are none.
C1_IndexInRange ==
    IF Len(frame_files) > 0
    THEN 0 <= frame_index /\ frame_index < Len(frame_files)
    ELSE frame_index = 0

\* C1 witness: an audio-master tick whose frame number passed the end of the
\* sequence and was wrapped back into it.
C1_Witness ==
    /\ last_op = "audio"
    /\ pos_ms >= 0
    /\ Len(frame_files) > 1
    /\ (pos_ms * fps) \div 1000 >= Len(frame_files)
    /\ frame_index < Len(frame_files)

\* C2: after a tick's clock evaluation under the audio master with a valid
\* position p (ms), the index is floor(p/1000 * rate) mod frame_count,
\* whatever the index was before; at rate 30 with at least 46 frames the
\* positions 0, 500, 1000, 1500 give 0, 15, 30, 45.
C2_AudioAbsolute ==
    (last_op = "audio" /\ pos_ms >= 0 /\ Len(frame_files) > 0) =>
        /\ frame_index = ((pos_ms * fps) \div 1000) % Len(frame_files)
        /\ (fps = 30 /\ Len(frame_files) >= 46) =>
              /\ pos_ms = 0 => frame_index = 0
              /\ pos_ms = 500 => frame_index = 15
              /\ pos_ms = 1000 => frame_index = 30
              /\ pos_ms = 1500 => frame_index = 45

\* C2 witness: the feed reports 1500 ms at rate 30 and frame 45 is shown.
C2_Witness ==
    /\ last_op = "audio"
    /\ fps = 30
    /\ Len(frame_files) >= 46
    /\ pos_ms = 1500
    /\ frame_index = 45

\* C3: with no started audio feed and state Playing, the clock evaluation of
\* a tick advances the index by exactly one step (wrapping to 0 after the
\* last frame) if a full interval 1/rate has elapsed since last_time, and
\* leaves it alone otherwise: never more than one step, however long the
\* tick.  At rate 10 a tick 100 ms after the last advance advances by one.
C3_WallClockSingleStep ==
    [][(/\ pc = "clock" /\ pc' = "paint"
        /\ playing
        /\ ~(audio_enabled /\ audio_started)
        /\ Len(frame_files) > 0)
       => /\ (now - last_time) * fps >= 1000
                => frame_index' = (frame_index + 1) % Len(frame_files)
          /\ (now - last_time) * fps < 1000 => frame_index' = frame_index
          /\ (fps = 10 /\ now - last_time >= 100)
                => frame_index' = (frame_index + 1) % Len(frame_files)]_vars

\* C3 witness: wall-clock stepping at rate 10 has just wrapped from the last
\* frame to frame 0.
C3_Witness ==
    /\ last_op = "wall"
    /\ playing
    /\ ~audio_enabled
    /\ fps = 10
    /\ Len(frame_files) > 1
    /\ prev_index = Len(frame_files) - 1
    /\ frame_index = 0

\* C4: a seek received while Playing leaves frame_index and cur_frame as
\* they are; a seek received while Paused moves frame_index by exactly one
\* step with wraparound and materializes the frame of the new index.
C4_SeekOnlyWhilePaused ==
    [][LET n == Max(1, Len(frame_files))
       IN  /\ last_op' = "RIGHT" =>
                IF playing
                THEN frame_index' = frame_index /\ cur_frame' = cur_frame
                ELSE /\ frame_index' = (frame_index + 1) % n
                     /\ cur_frame' \in Materializations(frame_index')
           /\ last_op' = "LEFT" =>
                IF playing
                THEN frame_index' = frame_index /\ cur_frame' = cur_frame
                ELSE /\ frame_index' = (frame_index + n - 1) % n
                     /\ cur_frame' \in Materializations(frame_index')]_vars

\* C4 witness: a seek-forward was received while Playing, with other frames
\* to go to, and the index stayed.
C4_Witness ==
    /\ last_op = "RIGHT"
    /\ playing
    /\ Len(frame_files) > 1
    /\ frame_index = prev_index

\* C5: pausing mid-playback and resuming, with no seek in between, does not
\* change frame_index: from the pause to the end of the tick in which
\* playback resumes (its clock evaluation included) the index is the one
\* shown at the pause, for every clock source.
C5_PauseResumeKeepsIndex ==
    pause_mark[1] # None => frame_index = pause_mark[1]

\* C6: when the started feed reports no valid position, the fallback elapsed
\* time now - audio_start_time - audio_pause_acc is the time spent Playing
\* since the feed started: every paused span was added to audio_pause_acc.
C6_FallbackCountsPlayingTime ==
    (last_op = "audio" /\ pos_ms = NoPos /\ audio_start_time # None) =>
        now - audio_start_time - audio_pause_acc = played_time

\* C7: while Paused, with n > 0 frames, a seek-forward right after a
\* seek-backward, and a seek-backward right after a seek-forward, return
\* frame_index to the index before the pair, wrap points included.
C7_SeekRoundTrip ==
    [][(~playing /\ Len(frame_files) > 0) =>
          /\ (last_op = "LEFT" /\ last_op' = "RIGHT") => frame_index' = prev_index
          /\ (last_op = "RIGHT" /\ last_op' = "LEFT") => frame_index' = prev_index]_vars

\* C7 witness: from index 0 a seek-backward wrapped to the last frame and the
\* seek-forward after it came back to 0.
C7_Witness ==
    /\ prev_op = "LEFT"
    /\ last_op = "RIGHT"
    /\ ~playing
    /\ Len(frame_files) >= 2
    /\ prev_index = Len(frame_files) - 1
    /\ frame_index = 0

\* C8: with no frames, frame_index is 0 before and after every step: seeks,
\* play/pause toggles and clock ticks of either source.
C8_EmptyStaysZero ==
    Len(frame_files) = 0 => (frame_index = 0 /\ prev_index = 0)

\* C8 witness: no frames, the audio feed was started, time has passed, the
\* user paused and a seek-backward was just handled.
C8_Witness ==
    /\ Len(frame_files) = 0
    /\ audio_started
    /\ now > 0
    /\ ~playing
    /\ last_op = "LEFT"
    /\ frame_index = 0

\* C9: an erase stroke at (mx, my) with radius r makes transparent exactly
\* the overlay pixels inside the disc of radius r around (mx, my); every
\* pixel outside the disc keeps its value.
C9_EraseExactlyDisc ==
    [][last_op' = "erase" =>
          \A p \in Pixels :
             overlay'[p] = IF InDisc(p, mx', my', brush_radius)
                           THEN Transparent ELSE overlay[p]]_vars

\* C10: the overlay is changed only by a draw stroke, an erase stroke or the
\* clear command; every other step leaves every overlay pixel as it was.
C10_OverlayChangedOnlyByStrokes ==
    [][overlay' # overlay =>
          last_op' \in {"draw", "erase", "draw+erase", "C"}]_vars

\* C10 witness: a painted overlay is in place when the clock moves the frame
\* index.
C10_Witness ==
    /\ overlay # BlankOverlay
    /\ last_op \in {"wall", "audio"}
    /\ frame_index # prev_index

\* C11: every save writes the frame and the overlay as the most recent
\* present step showed them, under the name of the index of that frame,
\* whatever events precede the save in the batch of its tick.
C11_SaveWritesWhatIsShown ==
    (last_op = "S" /\ save_ok = <<TRUE>> /\ "frame" \in DOMAIN screen) =>
        /\ saved.frame = screen.frame
        /\ saved.overlay = screen.overlay
        /\ saved.name = SaveName(screen.hud - 1)

\* C12: a save, whether the write succeeds or fails, leaves the overlay,
\* frame_index, playing, cur_frame, the brush and the audio state as they
\* were and the loop goes on with the batch; a write that failed is reported
\* by the value False, so the value True means the file was written.
C12_SaveChangesNothingElse ==
    [][last_op' = "S" =>
          /\ overlay' = overlay
          /\ frame_index' = frame_index
          /\ playing' = playing
          /\ cur_frame' = cur_frame
          /\ <<brush_radius, drawing, erasing>>' = <<brush_radius, drawing, erasing>>
          /\ audioVars' = audioVars
          /\ volumeVars' = volumeVars
          /\ running' = running
          /\ pc' = "events"
          /\ save_ok' \in {<<TRUE>>, <<FALSE>>}
          /\ save_ok' = <<FALSE>> => saved' = saved
          /\ save_ok' = <<TRUE>> =>
                saved' = [name |-> SaveName(frame_index), frame |-> cur_frame,
                          overlay |-> overlay]]_vars

\* C12 witness: with paint on the overlay and an earlier file in place, a
\* save has just failed.
C12_Witness ==
    /\ last_op = "S"
    /\ save_ok = <<FALSE>>
    /\ overlay # BlankOverlay
    /\ "frame" \in DOMAIN saved
    /\ running

\* C13: once the audio feed has failed to load or to start, every later
\* clock evaluation takes the wall-clock source and no further start is
\* issued to the audio transport.
C13_AudioErrorMeansWallClock ==
    [][audio_error # "none" => (last_op' # "audio" /\ plays' = plays)]_vars

\* C14 (as claimed): in a tick whose batch contains a clear command, the
\* overlay composited at the end of that tick is fully transparent.
C14_ClearTickShowsNoOverlay ==
    (pc = "render" /\ cleared) => overlay = BlankOverlay

\* C14 (amended): in a tick whose batch contains a clear command and whose
\* stroke step applies no draw stroke, the overlay composited at the end of
\* that tick is fully transparent.
C14_ClearThenNoDrawShowsNoOverlay ==
    (pc = "render" /\ cleared /\ last_op \notin {"draw", "draw+erase"}) =>
        overlay = BlankOverlay

\* C14 witness: paint was on display, the batch cleared it, no draw stroke
\* followed and the overlay about to be composited is empty.
C14_Witness ==
    /\ pc = "render"
    /\ cleared
    /\ last_op \in {"paint", "erase"}
    /\ "overlay" \in DOMAIN screen
    /\ screen.overlay # BlankOverlay
    /\ overlay = BlankOverlay

\* C15: the brush radius is an integer in [1, 200] in every reachable state;
\* an increase at 200 and a decrease at 1 leave it unchanged, every other
\* increase adds exactly 1 and every other decrease takes exactly 1 away.
C15_BrushRadiusInRange ==
    /\ brush_radius \in 1 .. 200
    /\ last_op = "PLUS" =>
          brush_radius = IF prev_radius = 200 THEN 200 ELSE prev_radius + 1
    /\ last_op = "MINUS" =>
          brush_radius = IF prev_radius = 1 THEN 1 ELSE prev_radius - 1

\* C15 witness: an increase was received at radius 200.
C15_Witness ==
    /\ last_op = "PLUS"
    /\ prev_radius = 200
    /\ brush_radius = 200

\* C16: no frame is decoded by a step that leaves the index to display equal
\* to the index already materialized: neither by an audio-master evaluation
\* whose computed index is the current frame_index, nor by a seek or a
\* wall-clock step that arrives at the index it started from.
C16_NoDecodeForSameIndex ==
    (loaded /\ last_op \in {"RIGHT", "LEFT", "audio", "wall"}) =>
        frame_index # prev_index

\* The steps of a tick by phase: the events of the batch, the clock
\* evaluation, the stroke step.
InputOps ==
    {"QUIT", "ESC", "SPACE", "RIGHT", "LEFT", "C", "S", "PLUS", "MINUS",
     "COMMA", "PERIOD", "M", "MDOWN", "MUP"}
ClockOps == {"audio", "wall"}
StrokeOps == {"draw", "erase", "draw+erase", "paint"}

\* The order of the phases of a tick: events follow the start of the tick
\* or one another, the clock evaluation follows the end of the batch, the
\* stroke step follows the clock evaluation, the present follows the stroke
\* step, and a new tick follows a present (or the startup).
TickOrder ==
    /\ last_op' \in InputOps \cup {"events"} => last_op \in InputOps \cup {"tick"}
    /\ last_op' \in ClockOps => last_op = "events"
    /\ last_op' \in StrokeOps => last_op \in ClockOps
    /\ last_op' = "render" => last_op \in StrokeOps
    /\ last_op' = "tick" => last_op \in {"render", "autostart"}

\* C17 (as claimed): within every tick the order is input, clock,
\* materialize, paint, compose and present, and the clock is evaluated
\* before any frame is materialized: a frame is decoded only by the clock
\* evaluation.
C17_StrictTickOrder ==
    [][TickOrder /\ (loaded' => last_op' \in ClockOps)]_vars

\* C17 (amended): within every tick the order is input, clock, paint,
\* compose and present; a frame is decoded only by the clock evaluation,
\* for the index it has just computed, or by a seek event of the batch,
\* which materializes its frame at once and so before the clock evaluation.
C17_TickOrderSeeksLoadAtOnce ==
    [][TickOrder /\ (loaded' => last_op' \in ClockOps \cup {"RIGHT", "LEFT"})]_vars

\* C17 witness: a tick of a playing session in which a draw stroke followed
\* the clock evaluation has been presented.
C17_Witness ==
    /\ last_op = "render"
    /\ prev_op = "draw"
    /\ playing
    /\ frame_index > 0
    /\ "hud" \in DOMAIN screen
    /\ screen.hud = frame_index + 1

\* C18: once a quit event (window close or ESC) has been received, the
\* loop goes through the remaining steps of that tick, presents once and
\* ends: no tick starts afterwards, the present of that tick is the last
\* step, and the loop ends only by such a present.
C18_QuitEndsAfterThisTick ==
    [][/\ ~running => (~running' /\ last_op' # "tick")
       /\ (~running /\ last_op' = "render") => pc' = "done"
       /\ (~running /\ pc # "done") =>
             ENABLED (EventsDone \/ AudioMasterEval \/ WallClockStep
                        \/ Paint \/ Render)
       /\ pc' = "done" =>
             (~running /\ last_op' = "render" /\ last_op \in StrokeOps)
       /\ pc # "done"]_vars

\* C18 witness: the loop has ended after a quit event, with the tick of
\* the quit presented, while playback was going on.
C18_Witness ==
    /\ pc = "done"
    /\ ~running
    /\ playing
    /\ last_op = "render"
    /\ "hud" \in DOMAIN screen
    /\ screen.hud = frame_index + 1

\* C19: in every state, so at every compose/present and at every save,
\* cur_frame is the materialization of the current frame_index; a step
\* that changes frame_index loads the frame of the new index in the same
\* step, and only seeks and clock evaluations replace cur_frame.
C19_CurFrameIsFrameOfIndex ==
    /\ cur_frame \in Materializations(frame_index)
    /\ [][/\ cur_frame' \in Materializations(frame_index')
          /\ frame_index' # frame_index => loaded'
          /\ cur_frame' # cur_frame =>
                last_op' \in ClockOps \cup {"RIGHT", "LEFT"}]_vars

\* C19 witness: the audio master has moved the index to a later frame and
\* the image of that frame is about to be composited.
C19_Witness ==
    /\ pc = "render"
    /\ prev_op = "audio"
    /\ frame_index > 0
    /\ cur_frame = <<"image", frame_index>>

\* C20: as long as no start of the transport has failed: once the feed has
\* been started, at the end of every tick the transport is running if and
\* only if the state is Playing and paused if and only if it is Paused;
\* music.play() has been called at most once, and a Paused -> Playing
\* transition with the feed started resumes the transport without calling
\* it again.
C20_TransportMirrorsPlayback ==
    [][audio_error' # "start" =>
          /\ (audio_started' /\ pc' \in {"tick", "done"}) =>
                /\ (music' = "playing") <=> playing'
                /\ (music' = "paused") <=> ~playing'
          /\ plays' <= 1
          /\ (last_op' = "SPACE" /\ playing' /\ audio_started) =>
                (plays' = plays /\ music' = "playing")]_vars

\* C20 witness: the feed was started at startup, playback was paused and
\* resumed in later ticks, and a tick has ended with the transport running.
C20_Witness ==
    /\ pc = "tick"
    /\ last_op = "render"
    /\ audio_started
    /\ audio_error = "none"
    /\ plays = 1
    /\ playing
    /\ music = "playing"
    /\ music_pos < now

====
